---- MODULE Spec2Model ----
(***************************************************************************)
(* Model of check_tracking.py: the per-family classification predicates,   *)
(* the template-name tables built from the remote wiki, and the single     *)
(* forward scan of the dump that feeds the usage counters and the report.  *)
(*                                                                         *)
(* Python strings are TLA+ strings, taken apart with Head, Tail, SubSeq and *)
(* Len, so that strip, lower, replace, find, slicing, the substring test   *)
(* and float() are computed character by character.                        *)
(***************************************************************************)
EXTENDS Integers, Sequences, FiniteSets, TLC

VARIABLES
  pc,              \* position of main() (or "call" when a predicate is called directly)
  lang,            \* args.lang
  error,           \* the uncaught exception that ended the run, or "none"
  wiki,            \* the remote wiki's content: redirects of each title, category members
  calls,           \* the remote lookups completed so far, in order
  dump,            \* "closed" or "open"
  main_templates,  \* family -> list of seed titles stored under the key 'en'
  wikidata_usage,  \* family -> [tracking, transclusion]
  template_names,  \* family -> set of normalized names
  fam,             \* index in Families of the family the resolver loop is at
  seed,            \* index of the next seed title of that family
  i,               \* enumerate index of the current page record (0: not bound yet)
  evaluated,
  prob_wbc,
  actual_wbc,
  page,            \* the current page record
  revs,            \* revisions of the current page consumed so far
  wbc,
  tracking_only,
  invocations,     \* template invocations consumed so far in the whole run
  n_tracking,      \* counted invocations of the current revision text classified tracking
  n_transclusion,  \* counted invocations of the current revision text classified transclusion
  matched,         \* family -> number of (invocation, family) matches processed so far
  progress_lines,  \* progress lines printed
  report,          \* rows written to the output TSV
  summary,         \* whether the final summary was printed
  arg,             \* the template invocation handed to a predicate called directly
  ret              \* the predicate called and what it returned

vars == <<pc, lang, error, wiki, calls, dump, main_templates, wikidata_usage,
          template_names, fam, seed, i, evaluated, prob_wbc, actual_wbc, page,
          revs, wbc, tracking_only, invocations, n_tracking, n_transclusion,
          matched, progress_lines, report, summary, arg, ret>>

-----------------------------------------------------------------------------
(* Bounds of the model *)

\* page records in the dump
MaxPages == 2
\* revisions carried by one page record
MaxRevisions == 2
\* template invocations in the whole dump
MaxInvocations == 2
\* parameters of an invocation handed to a predicate called directly
MaxParams == 2
\* period of the progress line: the source prints every 10000th page record;
\* the model keeps the test i % period = 0 and scales the period down
ProgressEvery == 2

-----------------------------------------------------------------------------
(* str methods *)

UpperCase == <<"A","B","C","D","E","F","G","H","I","J","K","L","M",
               "N","O","P","Q","R","S","T","U","V","W","X","Y","Z">>
LowerCase == <<"a","b","c","d","e","f","g","h","i","j","k","l","m",
               "n","o","p","q","r","s","t","u","v","w","x","y","z">>
Whitespace == {" ", "\n", "\t"}
Digit == {"0","1","2","3","4","5","6","7","8","9"}

UpperCaseChars == {UpperCase[k] : k \in 1..26}

lower_char(c) ==
  IF c \in UpperCaseChars
  THEN LowerCase[CHOOSE k \in 1..26 : UpperCase[k] = c]
  ELSE c

RECURSIVE lower(_)
lower(s) == IF s = "" THEN "" ELSE lower_char(Head(s)) \o lower(Tail(s))

RECURSIVE lstrip(_)
lstrip(s) == IF s # "" /\ Head(s) \in Whitespace THEN lstrip(Tail(s)) ELSE s

RECURSIVE rstrip(_)
rstrip(s) ==
  IF s # "" /\ SubSeq(s, Len(s), Len(s)) \in Whitespace
  THEN rstrip(SubSeq(s, 1, Len(s) - 1))
  ELSE s

strip(s) == rstrip(lstrip(s))

\* s.replace(old, new) for one-character old and new
RECURSIVE replace(_, _, _)
replace(s, old, new) ==
  IF s = "" THEN ""
  ELSE (IF Head(s) = old THEN new ELSE Head(s)) \o replace(Tail(s), old, new)

\* s.find(c): 0-based index of the first c, -1 when there is none
find(s, c) ==
  IF \E k \in 1..Len(s) : SubSeq(s, k, k) = c
  THEN (CHOOSE k \in 1..Len(s) :
          SubSeq(s, k, k) = c /\ \A j \in 1..(k - 1) : SubSeq(s, j, j) # c) - 1
  ELSE -1

\* s[start:]
slice_from(s, start) == SubSeq(s, start + 1, Len(s))

\* sub in s
contains(s, sub) ==
  \E k \in 0..(Len(s) - Len(sub)) : SubSeq(s, k + 1, k + Len(sub)) = sub

s_inf == "inf"
s_infinity == "infinity"
s_nan == "nan"

\* One step of the recognizer of float()'s decimal literals:
\* [sign] (digits [. [digits]] | . digits) [(e|E) [sign] digits],
\* where digits may hold single underscores between digits.
float_step(q, c) ==
  CASE q = "start"   -> IF c \in {"+", "-"} THEN "sign"
                        ELSE IF c \in Digit THEN "int"
                        ELSE IF c = "." THEN "point" ELSE "reject"
    [] q = "sign"    -> IF c \in Digit THEN "int"
                        ELSE IF c = "." THEN "point" ELSE "reject"
    [] q = "int"     -> IF c \in Digit THEN "int"
                        ELSE IF c = "_" THEN "int_"
                        ELSE IF c = "." THEN "int."
                        ELSE IF c \in {"e", "E"} THEN "exp" ELSE "reject"
    [] q = "int_"    -> IF c \in Digit THEN "int" ELSE "reject"
    [] q = "point"   -> IF c \in Digit THEN "frac" ELSE "reject"
    [] q = "int."    -> IF c \in Digit THEN "frac"
                        ELSE IF c \in {"e", "E"} THEN "exp" ELSE "reject"
    [] q = "frac"    -> IF c \in Digit THEN "frac"
                        ELSE IF c = "_" THEN "frac_"
                        ELSE IF c \in {"e", "E"} THEN "exp" ELSE "reject"
    [] q = "frac_"   -> IF c \in Digit THEN "frac" ELSE "reject"
    [] q = "exp"     -> IF c \in {"+", "-"} THEN "expsign"
                        ELSE IF c \in Digit THEN "expdigits" ELSE "reject"
    [] q = "expsign" -> IF c \in Digit THEN "expdigits" ELSE "reject"
    [] q = "expdigits" -> IF c \in Digit THEN "expdigits"
                        ELSE IF c = "_" THEN "exp_" ELSE "reject"
    [] q = "exp_"    -> IF c \in Digit THEN "expdigits" ELSE "reject"
    [] OTHER         -> "reject"

RECURSIVE float_run(_, _)
float_run(q, s) == IF s = "" THEN q ELSE float_run(float_step(q, Head(s)), Tail(s))

\* float(s) returns (TRUE) or raises ValueError (FALSE)
float_parses(s) ==
  LET t == strip(s)
      unsigned == IF t # "" /\ Head(t) \in {"+", "-"} THEN Tail(t) ELSE t
  IN  \/ float_run("start", t) \in {"int", "int.", "frac", "expdigits"}
      \/ lower(unsigned) \in {s_inf, s_infinity, s_nan}

-----------------------------------------------------------------------------
(* Name normalization *)

standardize_template_names(t) == replace(lower(strip(t)), " ", "_")

standardize_template_param_name(param) == lower(strip(param.name))

-----------------------------------------------------------------------------
(* The classification predicates: TRUE is tracking-only, FALSE is transclusion *)

s_qid == "qid"
s_from == "from"
s_name == "name"
s_latitude_eq == "latitude="
s_dd_eq == "dd="

\* the loop of coord over template.params[k..]
RECURSIVE coord_from(_, _)
coord_from(params, k) ==
  IF k > Len(params) THEN FALSE
  ELSE IF float_parses(params[k].value) THEN TRUE
  ELSE IF contains(params[k].name, s_latitude_eq) \/ contains(params[k].name, s_dd_eq)
       THEN TRUE
  ELSE coord_from(params, k + 1)

\* a scan that gives up at the first value float() rejects
coord_abort(template) ==
  /\ template.params # <<>>
  /\ float_parses(template.params[1].value)

coord(template) == coord_from(template.params, 1)

\* ac without the test on the number of parameters
ac_first_only(template) ==
  IF template.params # <<>>
  THEN IF ~(standardize_template_param_name(template.params[1]) = s_qid)
       THEN TRUE ELSE FALSE
  ELSE FALSE

ac(template) ==
  IF template.params # <<>>
  THEN IF Len(template.params) > 1
          \/ ~(standardize_template_param_name(template.params[1]) = s_qid)
       THEN TRUE ELSE FALSE
  ELSE FALSE

tb(template) ==
  IF template.params # <<>>
  THEN IF Len(template.params) > 1
          \/ ~(standardize_template_param_name(template.params[1]) = s_from)
       THEN TRUE ELSE FALSE
  ELSE FALSE

bda(template) == TRUE

\* el comparing the raw parameter name
el_raw_name(template) ==
  IF template.params # <<>>
  THEN IF Len(template.params) = 1 /\ template.params[1].name = s_name
       THEN FALSE ELSE TRUE
  ELSE FALSE

el(template) ==
  IF template.params # <<>>
  THEN IF Len(template.params) = 1
          /\ standardize_template_param_name(template.params[1]) = s_name
       THEN FALSE ELSE TRUE
  ELSE FALSE

Families == <<"cd", "ac", "tb", "bd", "el">>

\* main_templates[f]['func'](t)
func(f, t) ==
  CASE f = "cd" -> coord(t)
    [] f = "ac" -> ac(t)
    [] f = "tb" -> tb(t)
    [] f = "bd" -> bda(t)
    [] f = "el" -> el(t)

-----------------------------------------------------------------------------
(* Seed titles of main_templates and the category queried for the 'el' family *)

Template_Coord == "Template:Coord"
Template_Authority_control == "Template:Authority control"
Template_Taxonbar == "Template:Taxonbar"
Template_Birth_date == "Template:Birth_date"
Template_Birth_date_and_age == "Template:Birth_date_and_age"
Template_Birth_year_and_age == "Template:Birth_year_and_age"
Template_Birth_hyphen_date == "Template:Birth-date"
Template_Birth_hyphen_date_and_age == "Template:Birth-date_and_age"
Category_External_link_templates_using_Wikidata == "Category:External_link_templates_using_Wikidata"

-----------------------------------------------------------------------------
(* The remote wiki: what the query interface answers *)

Template_IMDb_name == "Template:IMDb name"
Template_Coordinates == "Template:Coordinates"

\* a wiki is the redirects it holds for some titles and the members of the category
Wikis ==
  { [redirects |-> <<>>, categorymembers |-> <<>>],
    [redirects |-> <<>>, categorymembers |-> <<Template_IMDb_name>>],
    [redirects |-> (Template_Coord :> <<Template_Coordinates>>),
     categorymembers |-> <<Template_IMDb_name, Template_Taxonbar>>] }

\* result['query']['pages'][0] of the redirects query: the title as the interface
\* returns it (underscores shown as spaces) and the 'redirects' list, absent
\* when the page has none
query_redirects(main) ==
  [title |-> replace(main, "_", " "),
   redirects |-> IF main \in DOMAIN wiki.redirects THEN wiki.redirects[main] ELSE <<>>]

build_template_list(l, main) ==
  LET result == query_redirects(main)
      titles == <<result.title>> \o result.redirects
  IN  { standardize_template_names(slice_from(titles[k], find(titles[k], ":") + 1)) :
          k \in DOMAIN titles }

get_templates_in_category(l, category_name) == wiki.categorymembers

\* the literal of main_templates: every family holds the keys 'en' and 'func'
main_templates_literal ==
  [f \in {Families[k] : k \in DOMAIN Families} |->
     [en |-> CASE f = "cd" -> <<Template_Coord>>
               [] f = "ac" -> <<Template_Authority_control>>
               [] f = "tb" -> <<Template_Taxonbar>>
               [] f = "bd" -> <<Template_Birth_date, Template_Birth_date_and_age,
                                Template_Birth_year_and_age, Template_Birth_hyphen_date,
                                Template_Birth_hyphen_date_and_age>>
               [] f = "el" -> get_templates_in_category(
                                "en", Category_External_link_templates_using_Wikidata),
      func |-> f]]

-----------------------------------------------------------------------------
(* Inputs *)

\* values of --lang
Langs == {"en", "de"}

n_QID_padded == " QID "
n_From == "From"
n_Name_padded == " Name"
n_url == "url"
n_1 == "1"
n_2 == "2"
n_add_eq == "add=x"
n_VIAF == "VIAF"
n_LCCN == "LCCN"
n_caption == "caption"
v_51_5 == "51.5"
v_minus_0_1 == "-0.1"
v_a_castle == "a castle"
v_exp == " -1e3\n"
v_Q1 == "Q1"
v_1990 == "1990"
v_1 == "1"
v_2 == "2"
v_X == "X"
t_Coord == "Coord"
t_coord_padded == " coord "
t_Authority_control == "Authority control"
t_Taxonbar == "Taxonbar"
t_Birth_date == "Birth date"
t_IMDb_name == "IMDb name"
t_Infobox_castle == "Infobox castle"

P(n, v) == [name |-> n, value |-> v]
T(n, ps) == [name |-> n, params |-> ps]

\* the page records of the dump: an article, a redirect, a template page
PageRecords ==
  { [namespace |-> 0, redirect |-> FALSE],
    [namespace |-> 0, redirect |-> TRUE],
    [namespace |-> 10, redirect |-> FALSE] }

\* the template invocations a revision text of the dump may hold
DumpTemplates ==
  { T(t_Coord, <<P(n_1, v_51_5), P(n_2, v_minus_0_1)>>),
    T(t_coord_padded, <<>>),
    T(t_Authority_control, <<P(n_VIAF, v_1), P(n_LCCN, v_2)>>),
    T(t_Authority_control, <<P(n_QID_padded, v_Q1)>>),
    T(t_Taxonbar, <<P(s_from, v_Q1)>>),
    T(t_Birth_date, <<P(n_1, v_1990)>>),
    T(t_IMDb_name, <<P(s_name, v_X)>>),
    T(t_Infobox_castle, <<P(n_caption, v_a_castle)>>) }

\* the parameters of an invocation handed to a predicate called directly
ParamNames ==
  {s_qid, n_QID_padded, s_from, n_From, s_name, n_Name_padded, n_url, s_latitude_eq,
   n_add_eq}
ParamValues == {v_51_5, v_a_castle, v_exp, v_Q1}
Params == {P(n, v) : n \in ParamNames, v \in ParamValues}

RECURSIVE SeqsUpTo(_, _)
SeqsUpTo(S, n) ==
  IF n = 0 THEN {<<>>}
  ELSE LET shorter == SeqsUpTo(S, n - 1)
       IN  shorter \cup {Append(q, x) : q \in {r \in shorter : Len(r) = n - 1}, x \in S}

DirectTemplates == {T(t_Coord, ps) : ps \in SeqsUpTo(Params, MaxParams)}

NoTemplate == T("", <<>>)
NoReturn == [func |-> "none", value |-> FALSE]
NoPage == [namespace |-> -1, redirect |-> FALSE]

-----------------------------------------------------------------------------
(* main(): start-up *)

MainStart ==
  /\ lang = "unset"
  /\ error = "none"
  /\ calls = <<>>
  /\ dump = "closed"
  /\ main_templates = <<>>
  /\ wikidata_usage = <<>>
  /\ template_names = <<>>
  /\ fam = 0
  /\ seed = 0
  /\ i = 0
  /\ evaluated = 0
  /\ prob_wbc = 0
  /\ actual_wbc = 0
  /\ page = NoPage
  /\ revs = 0
  /\ wbc = FALSE
  /\ tracking_only = TRUE
  /\ invocations = 0
  /\ n_tracking = 0
  /\ n_transclusion = 0
  /\ matched = [f \in {Families[k] : k \in DOMAIN Families} |-> 0]
  /\ progress_lines = 0
  /\ report = <<>>
  /\ summary = FALSE

Init ==
  /\ pc = "start"
  /\ wiki \in Wikis
  /\ MainStart
  /\ arg = NoTemplate
  /\ ret = NoReturn

scan_vars == <<i, evaluated, prob_wbc, actual_wbc, page, revs, wbc, tracking_only,
               invocations, n_tracking, n_transclusion, matched, progress_lines>>
out_vars == <<report, summary>>
call_vars == <<arg, ret>>

ParseArgs ==
  /\ pc = "start"
  /\ \E l \in Langs : lang' = l
  /\ pc' = "main_templates"
  /\ UNCHANGED <<error, wiki, calls, dump, main_templates, wikidata_usage,
                 template_names, fam, seed>>
  /\ UNCHANGED <<scan_vars, out_vars, call_vars>>

\* main_templates built without the category lookup
BuildMainTemplates_no_lister ==
  /\ pc = "main_templates"
  /\ main_templates' = [main_templates_literal EXCEPT !["el"].en = <<>>]
  /\ pc' = "open_dump"
  /\ UNCHANGED <<lang, error, wiki, calls, dump, wikidata_usage, template_names, fam, seed>>
  /\ UNCHANGED <<scan_vars, out_vars, call_vars>>

BuildMainTemplates ==
  /\ pc = "main_templates"
  /\ main_templates' = main_templates_literal
  /\ calls' = Append(calls, [fn |-> "get_templates_in_category", lang |-> "en",
                             title |-> Category_External_link_templates_using_Wikidata])
  /\ pc' = "open_dump"
  /\ UNCHANGED <<lang, error, wiki, dump, wikidata_usage, template_names, fam, seed>>
  /\ UNCHANGED <<scan_vars, out_vars, call_vars>>

OpenDump ==
  /\ pc = "open_dump"
  /\ dump' = "open"
  /\ wikidata_usage' = <<>>
  /\ template_names' = <<>>
  /\ fam' = 1
  /\ pc' = "family"
  /\ UNCHANGED <<lang, error, wiki, calls, main_templates, seed>>
  /\ UNCHANGED <<scan_vars, out_vars, call_vars>>

\* for t in main_templates: the counters and the name set of t, then the lookup
\* of main_templates[t][args.lang]
StartFamily ==
  /\ pc = "family"
  /\ fam <= Len(Families)
  /\ LET t == Families[fam] IN
       /\ wikidata_usage' = (t :> [tracking |-> 0, transclusion |-> 0]) @@ wikidata_usage
       /\ template_names' = (t :> {}) @@ template_names
       /\ IF lang \in DOMAIN main_templates[t]
          THEN /\ seed' = 1
               /\ pc' = "seeds"
               /\ error' = error
          ELSE /\ seed' = seed
               /\ pc' = "aborted"
               /\ error' = "KeyError"
  /\ UNCHANGED <<lang, wiki, calls, dump, main_templates, fam>>
  /\ UNCHANGED <<scan_vars, out_vars, call_vars>>

ResolveSeed ==
  /\ pc = "seeds"
  /\ seed <= Len(main_templates[Families[fam]][lang])
  /\ LET t == Families[fam]
         t_name == main_templates[t][lang][seed]
     IN  /\ template_names' =
               [template_names EXCEPT ![t] = @ \cup build_template_list(lang, t_name)]
         /\ calls' = Append(calls, [fn |-> "build_template_list", lang |-> lang,
                                    title |-> t_name])
  /\ seed' = seed + 1
  /\ UNCHANGED <<pc, lang, error, wiki, dump, main_templates, wikidata_usage, fam>>
  /\ UNCHANGED <<scan_vars, out_vars, call_vars>>

EndFamily ==
  /\ pc = "seeds"
  /\ seed > Len(main_templates[Families[fam]][lang])
  /\ fam' = fam + 1
  /\ pc' = "family"
  /\ UNCHANGED <<lang, error, wiki, calls, dump, main_templates, wikidata_usage,
                 template_names, seed>>
  /\ UNCHANGED <<scan_vars, out_vars, call_vars>>

\* the name-count lines, then evaluated = prob_wbc = actual_wbc = 0
StartScan ==
  /\ pc = "family"
  /\ fam > Len(Families)
  /\ evaluated' = 0
  /\ prob_wbc' = 0
  /\ actual_wbc' = 0
  /\ pc' = "page"
  /\ UNCHANGED <<lang, error, wiki, calls, dump, main_templates, wikidata_usage,
                 template_names, fam, seed>>
  /\ UNCHANGED <<i, page, revs, wbc, tracking_only, invocations, n_tracking,
                 n_transclusion, matched, progress_lines>>
  /\ UNCHANGED <<out_vars, call_vars>>

-----------------------------------------------------------------------------
(* main(): the scan of the dump *)

startup_vars == <<lang, error, wiki, calls, dump, main_templates, fam, seed>>

\* the page filter of the scan, with the redirect test left out
is_article_any_redirect(p) == p.namespace = 0

\* page.namespace == 0 and not page.redirect
is_article(p) == p.namespace = 0 /\ ~p.redirect

\* classify_one with a transclusion that leaves tracking_only as it was
classify_one_keeps_flag(st, t_check, t_name, t) ==
  IF t_name \in template_names[t_check]
  THEN IF func(t_check, t)
       THEN [st EXCEPT !.usage[t_check].tracking = @ + 1, !.wbc = TRUE]
       ELSE [st EXCEPT !.usage[t_check].transclusion = @ + 1, !.wbc = TRUE]
  ELSE st

\* classify_one with a tracking branch that falls through to the transclusion counter
classify_one_both(st, t_check, t_name, t) ==
  IF t_name \in template_names[t_check]
  THEN IF func(t_check, t)
       THEN [st EXCEPT !.usage[t_check].tracking = @ + 1,
                       !.usage[t_check].transclusion = @ + 1, !.wbc = TRUE]
       ELSE [st EXCEPT !.usage[t_check].transclusion = @ + 1, !.wbc = TRUE,
                       !.tracking_only = FALSE]
  ELSE st

\* the body of "for t_check in template_names" for one family
classify_one(st, t_check, t_name, t) ==
  IF t_name \in template_names[t_check]
  THEN IF func(t_check, t)
       THEN [st EXCEPT !.usage[t_check].tracking = @ + 1, !.wbc = TRUE]
       ELSE [st EXCEPT !.usage[t_check].transclusion = @ + 1, !.wbc = TRUE,
                       !.tracking_only = FALSE]
  ELSE st

\* "for t_check in template_names": the families in insertion order, from the k-th
RECURSIVE classify_from(_, _, _, _)
classify_from(st, k, t_name, t) ==
  IF k > Len(Families) THEN st
  ELSE classify_from(classify_one(st, Families[k], t_name, t), k + 1, t_name, t)

\* "if wbc: prob_wbc += 1; if not tracking_only: actual_wbc += 1" as increments
page_totals(w, t_only) ==
  [prob |-> IF w THEN 1 ELSE 0,
   actual |-> IF w /\ ~t_only THEN 1 ELSE 0]

NextPage ==
  /\ pc = "page"
  /\ i < MaxPages
  /\ i' = i + 1
  /\ page' \in PageRecords
  /\ revs' = 0
  /\ IF is_article(page')
     THEN /\ evaluated' = evaluated + 1
          /\ pc' = "revisions"
     ELSE /\ evaluated' = evaluated
          /\ pc' = "progress"
  /\ UNCHANGED <<startup_vars, wikidata_usage, template_names>>
  /\ UNCHANGED <<prob_wbc, actual_wbc, wbc, tracking_only, invocations, n_tracking,
                 n_transclusion, matched, progress_lines>>
  /\ UNCHANGED <<out_vars, call_vars>>

NextRevision ==
  /\ pc = "revisions"
  /\ revs < MaxRevisions
  /\ revs' = revs + 1
  /\ wbc' = FALSE
  /\ tracking_only' = TRUE
  /\ n_tracking' = 0
  /\ n_transclusion' = 0
  /\ pc' = "templates"
  /\ UNCHANGED <<startup_vars, wikidata_usage, template_names>>
  /\ UNCHANGED <<i, evaluated, prob_wbc, actual_wbc, page, invocations, matched,
                 progress_lines>>
  /\ UNCHANGED <<out_vars, call_vars>>

NextTemplate ==
  /\ pc = "templates"
  /\ invocations < MaxInvocations
  /\ \E t \in DumpTemplates :
       \E t_name \in {standardize_template_names(t.name)} :
         \E st \in {classify_from([usage |-> wikidata_usage, wbc |-> wbc,
                                   tracking_only |-> tracking_only], 1, t_name, t)} :
           LET hits == {f \in DOMAIN template_names : t_name \in template_names[f]}
           IN  /\ wikidata_usage' = st.usage
               /\ wbc' = st.wbc
               /\ tracking_only' = st.tracking_only
               /\ matched' = [f \in DOMAIN matched |->
                                matched[f] + IF f \in hits THEN 1 ELSE 0]
               /\ n_tracking' = n_tracking + Cardinality({f \in hits : func(f, t)})
               /\ n_transclusion' =
                    n_transclusion + Cardinality({f \in hits : ~func(f, t)})
  /\ invocations' = invocations + 1
  /\ UNCHANGED <<pc, startup_vars, template_names>>
  /\ UNCHANGED <<i, evaluated, prob_wbc, actual_wbc, page, revs, progress_lines>>
  /\ UNCHANGED <<out_vars, call_vars>>

EndRevision ==
  /\ pc = "templates"
  /\ LET d == page_totals(wbc, tracking_only) IN
       /\ prob_wbc' = prob_wbc + d.prob
       /\ actual_wbc' = actual_wbc + d.actual
  /\ pc' = "revisions"
  /\ UNCHANGED <<startup_vars, wikidata_usage, template_names>>
  /\ UNCHANGED <<i, evaluated, page, revs, wbc, tracking_only, invocations,
                 n_tracking, n_transclusion, matched, progress_lines>>
  /\ UNCHANGED <<out_vars, call_vars>>

EndPage ==
  /\ pc = "revisions"
  /\ pc' = "progress"
  /\ UNCHANGED <<startup_vars, wikidata_usage, template_names>>
  /\ UNCHANGED <<scan_vars, out_vars, call_vars>>

\* "if i % 10000 == 0": the status lines divide only when n is not 0, the
\* progress line divides by evaluated
Progress ==
  /\ pc = "progress"
  /\ IF i % ProgressEvery = 0
     THEN IF evaluated = 0
          THEN /\ error' = "ZeroDivisionError"
               /\ pc' = "aborted"
               /\ progress_lines' = progress_lines
          ELSE /\ error' = error
               /\ pc' = "page"
               /\ progress_lines' = progress_lines + 1
     ELSE /\ error' = error
          /\ pc' = "page"
          /\ progress_lines' = progress_lines
  /\ UNCHANGED <<lang, wiki, calls, dump, main_templates, fam, seed,
                 wikidata_usage, template_names>>
  /\ UNCHANGED <<i, evaluated, prob_wbc, actual_wbc, page, revs, wbc, tracking_only,
                 invocations, n_tracking, n_transclusion, matched>>
  /\ UNCHANGED <<out_vars, call_vars>>

\* the rows of the output TSV
report_rows ==
  <<[type |-> "header"],
    [type |-> "total", n |-> evaluated],
    [type |-> "wbc_estimate", transclusion |-> actual_wbc,
     tracking |-> prob_wbc - actual_wbc]>>
  \o [k \in 1..Len(Families) |->
        [type |-> Families[k],
         transclusion |-> wikidata_usage[Families[k]].transclusion,
         tracking |-> wikidata_usage[Families[k]].tracking]]

\* end of the stream: the rows are written, then the summary is formatted from
\* i (bound by the loop only) and the percentages of evaluated
Report ==
  /\ pc = "page"
  /\ report' = report_rows
  /\ IF i = 0
     THEN /\ error' = "UnboundLocalError"
          /\ pc' = "aborted"
          /\ summary' = FALSE
     ELSE IF evaluated = 0
     THEN /\ error' = "ZeroDivisionError"
          /\ pc' = "aborted"
          /\ summary' = FALSE
     ELSE /\ error' = error
          /\ pc' = "done"
          /\ summary' = TRUE
  /\ UNCHANGED <<lang, wiki, calls, dump, main_templates, fam, seed,
                 wikidata_usage, template_names>>
  /\ UNCHANGED <<scan_vars, call_vars>>

Next ==
  \/ ParseArgs
  \/ BuildMainTemplates
  \/ OpenDump
  \/ StartFamily
  \/ ResolveSeed
  \/ EndFamily
  \/ StartScan
  \/ NextPage
  \/ NextRevision
  \/ NextTemplate
  \/ EndRevision
  \/ EndPage
  \/ Progress
  \/ Report

Spec == Init /\ [][Next]_vars

-----------------------------------------------------------------------------
(* The predicates called directly on one invocation *)

PredInit ==
  /\ pc = "call"
  /\ wiki \in {w \in Wikis : w.categorymembers = <<>>}
  /\ MainStart
  /\ arg \in DirectTemplates
  /\ ret = NoReturn

CallPredicate ==
  /\ pc = "call"
  /\ ret = NoReturn
  /\ \E f \in {Families[k] : k \in DOMAIN Families} :
       ret' = [func |-> f, value |-> func(f, arg)]
  /\ UNCHANGED <<pc, startup_vars, wikidata_usage, template_names>>
  /\ UNCHANGED <<scan_vars, out_vars, arg>>

PredNext == CallPredicate

PredSpec == PredInit /\ [][PredNext]_vars

-----------------------------------------------------------------------------
(* Properties *)

FamilySet == {Families[k] : k \in DOMAIN Families}

\* the invocation has exactly one parameter, whose trimmed, lowercased name is n
single_param_named(t, n) ==
  Len(t.params) = 1 /\ lower(strip(t.params[1].name)) = n

\* C1 (as stated): a revision text of an evaluated page adds one to actual_wbc
\* only if it has at least one counted invocation and none of its counted
\* invocations was classified tracking-only.
C1_ConfirmedOnlyIfAllTransclusion ==
  [][(pc = "templates" /\ pc' = "revisions" /\ actual_wbc' = actual_wbc + 1)
       => (n_transclusion > 0 /\ n_tracking = 0)]_vars

\* C1 (amended): at the end of every revision text of an evaluated page,
\* actual_wbc grows by one exactly when at least one counted invocation of the
\* text was classified transclusion, whatever else was classified tracking-only,
\* and is unchanged otherwise.
C1_ConfirmedIffSomeTransclusion ==
  [][(pc = "templates" /\ pc' = "revisions")
       => actual_wbc' = actual_wbc + (IF n_transclusion > 0 THEN 1 ELSE 0)]_vars

\* the first text of the first page held a tracking-only and a transclusion
\* invocation and was confirmed
C1_Witness ==
  /\ pc = "revisions"
  /\ i = 1
  /\ revs = 1
  /\ invocations = 2
  /\ n_tracking = 1
  /\ n_transclusion = 1
  /\ actual_wbc = 1

\* C2 (as stated): ac returns FALSE if and only if the invocation has exactly one
\* parameter whose normalized name is "qid", and TRUE for every other invocation;
\* tb likewise with "from".
C2_FalseIffSingleOverride ==
  /\ ret.func = "ac" => (ret.value = FALSE <=> single_param_named(arg, s_qid))
  /\ ret.func = "tb" => (ret.value = FALSE <=> single_param_named(arg, s_from))

\* C2 (amended): ac returns FALSE if and only if the invocation has no parameter
\* at all or exactly one parameter whose normalized name is "qid", and TRUE for
\* every other invocation; tb likewise with "from".
C2_FalseIffNoneOrSingleOverride ==
  /\ ret.func = "ac" =>
       (ret.value = FALSE <=> (arg.params = <<>> \/ single_param_named(arg, s_qid)))
  /\ ret.func = "tb" =>
       (ret.value = FALSE <=> (arg.params = <<>> \/ single_param_named(arg, s_from)))

\* ac called on {{..| QID =Q1}} returned FALSE
C2_Witness ==
  /\ ret.func = "ac"
  /\ Len(arg.params) = 1
  /\ arg.params[1].name = n_QID_padded
  /\ ret.value = FALSE

\* C3 (as stated): el returns FALSE only for an invocation with exactly one
\* parameter whose normalized name is "name", and TRUE in every other case,
\* zero parameters included.
C3_FalseIffSingleName ==
  ret.func = "el" => (ret.value = FALSE <=> single_param_named(arg, s_name))

\* C3 (amended): el returns FALSE if and only if the invocation has no parameter
\* at all or exactly one parameter whose normalized name is "name", and TRUE in
\* every other case.
C3_FalseIffNoneOrSingleName ==
  ret.func = "el" =>
    (ret.value = FALSE <=> (arg.params = <<>> \/ single_param_named(arg, s_name)))

\* el called on {{..| Name=..}} returned FALSE
C3_Witness ==
  /\ ret.func = "el"
  /\ Len(arg.params) = 1
  /\ arg.params[1].name = n_Name_padded
  /\ ret.value = FALSE

\* C4: coord returns TRUE exactly when some parameter has a value float() accepts
\* or, float() rejecting its value, a name containing "latitude=" or "dd="; it
\* returns FALSE for no parameters and when no parameter matches; a rejected
\* value never ends the scan.
C4_CoordIffSomeParamMatches ==
  ret.func = "cd" =>
    (ret.value =
       \E k \in DOMAIN arg.params :
         \/ float_parses(arg.params[k].value)
         \/ /\ ~float_parses(arg.params[k].value)
            /\ \/ contains(arg.params[k].name, s_latitude_eq)
               \/ contains(arg.params[k].name, s_dd_eq))

\* coord went past a first parameter that matches nothing and returned TRUE on
\* the name of the second, whose value float() rejects too
C4_Witness ==
  /\ ret.func = "cd"
  /\ Len(arg.params) = 2
  /\ arg.params[1] = P(n_url, v_a_castle)
  /\ arg.params[2] = P(n_add_eq, v_Q1)
  /\ ret.value = TRUE

\* C5: every step leaves, for every family, tracking + transclusion equal to the
\* number of (invocation, family) matches processed so far; a step that
\* processes an invocation matching the family adds one to exactly one of its two
\* counters, any other step adds nothing, and no counter decreases or is reset.
C5_CountersCountMatches ==
  [][/\ \A f \in DOMAIN wikidata_usage' :
          wikidata_usage'[f].tracking + wikidata_usage'[f].transclusion = matched'[f]
     /\ \A f \in DOMAIN wikidata_usage :
          LET d_tracking == wikidata_usage'[f].tracking - wikidata_usage[f].tracking
              d_transclusion ==
                wikidata_usage'[f].transclusion - wikidata_usage[f].transclusion
          IN  /\ f \in DOMAIN wikidata_usage'
              /\ d_tracking \in {0, 1}
              /\ d_transclusion \in {0, 1}
              /\ d_tracking + d_transclusion = matched'[f] - matched[f]]_vars

\* two invocations were processed: one counted tracking and one counted
\* transclusion for the same family
C5_Witness ==
  /\ invocations = 2
  /\ wikidata_usage["ac"] = [tracking |-> 1, transclusion |-> 1]
  /\ matched["ac"] = 2

\* the Category Lister call has completed
lister_done == \E n \in DOMAIN calls : calls[n].fn = "get_templates_in_category"

\* every Resolver call of the run has completed
resolver_done ==
  /\ DOMAIN main_templates = FamilySet
  /\ \A f \in FamilySet :
       /\ lang \in DOMAIN main_templates[f]
       /\ \A k \in DOMAIN main_templates[f][lang] :
            \E n \in DOMAIN calls :
              calls[n] = [fn |-> "build_template_list", lang |-> lang,
                          title |-> main_templates[f][lang][k]]

\* C6 (as stated): whenever the dump is open, the Category Lister call and every
\* Resolver call have completed.
C6_LookupsDoneBeforeOpen == dump = "open" => (lister_done /\ resolver_done)

\* C6 (amended): whenever the dump is open the Category Lister call has
\* completed; a Resolver call is made only with the dump already open; and
\* whenever a page record has been read from the dump every Resolver call has
\* completed.
C6_ListerBeforeOpenResolverBeforeScan ==
  /\ dump = "open" => lister_done
  /\ (\E n \in DOMAIN calls : calls[n].fn = "build_template_list") => dump = "open"
  /\ i >= 1 => (dump = "open" /\ resolver_done)

\* a page record was read after the eleven lookups of a wiki whose category has
\* two members
C6_Witness ==
  /\ i = 1
  /\ dump = "open"
  /\ Len(wiki.categorymembers) = 2
  /\ Len(calls) = 11

\* C7: the progress step and the end-of-stream step never abort the run.
C7_ScanStepsNeverAbort ==
  ~(pc = "aborted" /\ error \in {"ZeroDivisionError", "UnboundLocalError"})

\* C8: every lookup is issued for the language given by --lang, and the run is
\* not stopped for want of that language's seed titles.
C8_LangSelectsWikiAndSeeds ==
  /\ \A n \in DOMAIN calls : calls[n].lang = lang
  /\ error # "KeyError"

\* C9: a step that leaves a page record outside namespace 0 or flagged as a
\* redirect as the current page changes none of evaluated, prob_wbc, actual_wbc
\* and the usage counters, and the step that reads it advances the index by one.
C9_SkippedPageKeepsAggregates ==
  [][(page'.namespace \notin {0, -1} \/ page'.redirect)
       => /\ UNCHANGED <<evaluated, prob_wbc, actual_wbc, wikidata_usage>>
          /\ (pc = "page" /\ pc' = "progress") => i' = i + 1]_vars

\* the second page record is a namespace-0 redirect, read after a first page
\* that counted; the totals of the first page stand
C9_Witness ==
  /\ pc = "progress"
  /\ i = 2
  /\ page = [namespace |-> 0, redirect |-> TRUE]
  /\ evaluated = 1
  /\ prob_wbc = 1
  /\ actual_wbc = 1

\* C10: 0 <= actual_wbc <= prob_wbc <= evaluated <= pages processed, and the
\* tracking-only remainder written in the wbc_estimate row is not negative.
C10_PageTotalsOrdered ==
  /\ 0 <= actual_wbc
  /\ actual_wbc <= prob_wbc
  /\ prob_wbc <= evaluated
  /\ evaluated <= i
  /\ report # <<>> => report[3].tracking >= 0

====
